---------------------------- MODULE Spec2Model ----------------------------
(***************************************************************************)
(* A model of the Shazam-style audio identification engine:                *)
(*   src/src/fingerprinting.py  hash generation from a constellation map   *)
(*   src/src/database.py        SQLite metadata table + Redis postings     *)
(*   src/src/matching.py        offset-histogram matcher                   *)
(*   src/src/shazam_system.py   the orchestrator (ingest / identify)       *)
(*                                                                         *)
(* An audio signal is represented by its constellation map (the list of    *)
(* spectral peaks the peak picker extracts from it).  Confidence values    *)
(* are fixed-point numbers in millionths (floor of the real value).        *)
(***************************************************************************)
EXTENDS Integers, Sequences, FiniteSets

(***************************************************************************)
(* Bounds of the model.                                                    *)
(***************************************************************************)
\* rows the songs table may ever be given (cap on sqlite_sequence)
MaxSongs == 2
\* index of the last time frame in which an audio may carry a peak
MaxFrame == 3
\* distance, in STFT frames, between two consecutive candidate peak frames
FrameStep == 3
\* number of peaks of the long track (one per frame)
LongTrackPeaks == 2004
\* rounds of generate_hashes' anchor loop taken in one step on the long track
AnchorsPerStep == 16
\* hashing runs: longest peak list handed to generate_hashes
MaxPeaks == 3
\* listing runs: largest song id, latest date_added, largest page size
MaxRows == 3
MaxDate == 1
MaxLimit == 2
MaxThreads == 2
\* ranking runs: largest number of query hashes
MaxQueryHashes == 3
\* alignment runs: most occurrences of a bucket at one offset
MaxCount == 4
\* confidence runs: largest bucket
MaxBucket == 8
\* peak picking runs: frequency bins of the first band
BandWidth == 8
\* streaming runs: longest audio chunk a client sends, in seconds
MaxChunkSeconds == 2
\* folder runs: calls of build_database_from_folder in a row
MaxRuns == 3

(***************************************************************************)
(* Program constants (src/src/config.py).                                  *)
(***************************************************************************)
HASH_TIME_DELTA_MIN == 1
HASH_TIME_DELTA_MAX == 200
HASH_FAN_VALUE == 5
REDIS_HASH_EXPIRY == 86400 * 30
MIN_MATCHING_HASHES == 3
TIME_ALIGNMENT_TOLERANCE == 5
\* CONFIDENCE_THRESHOLD = 0.05, in millionths
CONFIDENCE_THRESHOLD == 50000
MAX_FINGERPRINTS_PER_TRACK == 10000
PEAK_NEIGHBORHOOD_SIZE == 5
\* MIN_PEAK_AMPLITUDE = 0.001, in thousandths
MIN_PEAK_AMPLITUDE == 1

(***************************************************************************)
(* Streaming windows (src/web_interface.py), in seconds.                   *)
(***************************************************************************)
\* min_samples = max_samples = int(recognizer.sample_rate * 5.0)
WindowSeconds == 5
\* overlap_samples = int(recognizer.sample_rate * 3.0)
OverlapSeconds == 3
\* min_final_samples = int(recognizer.sample_rate * 2.0)
FinalSeconds == 2

(***************************************************************************)
(* Optional values: None, or Some(x).                                      *)
(***************************************************************************)
None == <<>>
Some(x) == <<x>>
IsSome(o) == Len(o) = 1
Get(o) == o[1]

\* F applied to the value of v, v being evaluated once
With(v, F(_)) == CHOOSE y \in {F(x) : x \in {v}} : TRUE

Max(a, b) == IF a >= b THEN a ELSE b
Min(a, b) == IF a <= b THEN a ELSE b

RECURSIVE SetToSeq(_)
\* the elements of a finite set of integers, ascending
SetToSeq(S) ==
    IF S = {} THEN <<>>
    ELSE LET m == CHOOSE x \in S : \A y \in S : x <= y
         IN  <<m>> \o SetToSeq(S \ {m})

(***************************************************************************)
(* Inputs.  An audio is a pulse train: peaks in one frequency bin at some  *)
(* of the frames 0, FrameStep, ..., MaxFrame*FrameStep.  Clips are the     *)
(* trains cut after their first n pulses (n = 0: silence).                 *)
(***************************************************************************)
ToneBin == 41
Frames == {k * FrameStep : k \in 0..MaxFrame}
SpectralPeak(f, t) == [frequency_bin |-> f, time_frame |-> t]
PeaksAt(S) == LET ts == SetToSeq(S)
              IN  [i \in 1..Len(ts) |-> SpectralPeak(ToneBin, ts[i])]
Clips == {PeaksAt({k * FrameStep : k \in 0..(n - 1)}) : n \in 0..MaxFrame}
Trains == {PeaksAt(S) : S \in SUBSET Frames}

\* The spellings under which callers name audio files, and what
\* Path(audio_file).resolve() makes of each.
Files == {"a.wav", "/music/b.wav"}
Resolve(audio_file) ==
    IF audio_file = "a.wav" THEN "/music/a.wav"
    ELSE IF audio_file = "b.wav" THEN "/music/b.wav"
    ELSE audio_file

(***************************************************************************)
(* Fingerprinting (src/src/fingerprinting.py).                             *)
(***************************************************************************)
RECURSIVE InsertByTime(_, _)
\* insert p after every peak whose time_frame is <= p's (stable)
InsertByTime(sorted, p) ==
    IF sorted = <<>> THEN <<p>>
    ELSE IF sorted[Len(sorted)].time_frame <= p.time_frame
         THEN Append(sorted, p)
         ELSE Append(InsertByTime(SubSeq(sorted, 1, Len(sorted) - 1), p),
                     sorted[Len(sorted)])

RECURSIVE SortedByTime(_)
\* sorted(peaks, key=lambda p: p.time_frame)
SortedByTime(peaks) ==
    IF peaks = <<>> THEN <<>>
    ELSE InsertByTime(SortedByTime(SubSeq(peaks, 1, Len(peaks) - 1)),
                      peaks[Len(peaks)])

RECURSIVE FindTargetPeaksFrom(_, _, _, _, _)
FindTargetPeaksFrom(anchor_peak, candidate_peaks, max_targets, i, targets) ==
    IF i > Len(candidate_peaks) THEN targets
    ELSE LET peak == candidate_peaks[i]
             time_delta == peak.time_frame - anchor_peak.time_frame
         IN  IF time_delta < HASH_TIME_DELTA_MIN
             THEN FindTargetPeaksFrom(anchor_peak, candidate_peaks,
                                      max_targets, i + 1, targets)
             ELSE IF time_delta > HASH_TIME_DELTA_MAX
             THEN targets
             ELSE IF Len(targets) + 1 >= max_targets
             THEN Append(targets, peak)
             ELSE FindTargetPeaksFrom(anchor_peak, candidate_peaks,
                                      max_targets, i + 1,
                                      Append(targets, peak))

FindTargetPeaks(anchor_peak, candidate_peaks, max_targets) ==
    FindTargetPeaksFrom(anchor_peak, candidate_peaks, max_targets, 1, <<>>)

\* hash_value is the digest of the string "anchor|target|delta"; the digest
\* is represented by the triple the string encodes.
HashString(anchor_freq, target_freq, time_delta) ==
    <<anchor_freq, target_freq, time_delta>>

\* an AudioHash whose hash_value is built from the target's own frame
CreateHashOfFrames(anchor, target) ==
    LET time_delta == target.time_frame - anchor.time_frame
    IN  IF ~(HASH_TIME_DELTA_MIN <= time_delta
             /\ time_delta <= HASH_TIME_DELTA_MAX)
        THEN None
        ELSE Some([hash_value |-> HashString(anchor.frequency_bin,
                                             target.frequency_bin,
                                             target.time_frame),
                   time_offset |-> anchor.time_frame,
                   anchor_freq |-> anchor.frequency_bin,
                   target_freq |-> target.frequency_bin,
                   time_delta |-> time_delta])

\* None when the time delta is out of range, else the AudioHash
CreateHash(anchor, target) ==
    LET time_delta == target.time_frame - anchor.time_frame
    IN  IF ~(HASH_TIME_DELTA_MIN <= time_delta
             /\ time_delta <= HASH_TIME_DELTA_MAX)
        THEN None
        ELSE Some([hash_value |-> HashString(anchor.frequency_bin,
                                             target.frequency_bin,
                                             time_delta),
                   time_offset |-> anchor.time_frame,
                   anchor_freq |-> anchor.frequency_bin,
                   target_freq |-> target.frequency_bin,
                   time_delta |-> time_delta])

RECURSIVE HashesOfTargets(_, _, _)
HashesOfTargets(anchor, targets, i) ==
    IF i > Len(targets) THEN <<>>
    ELSE CreateHash(anchor, targets[i]) \o HashesOfTargets(anchor, targets, i + 1)

\* one round of the anchor loop with no limit on the number of targets
AnchorHashesAllTargets(peaks_by_time, anchor_idx) ==
    LET anchor_peak == peaks_by_time[anchor_idx]
        target_peaks ==
            FindTargetPeaks(anchor_peak,
                            SubSeq(peaks_by_time, anchor_idx + 1,
                                   Len(peaks_by_time)),
                            Len(peaks_by_time) + 1)
    IN  HashesOfTargets(anchor_peak, target_peaks, 1)

\* one round of the anchor loop: the hashes of the anchor at anchor_idx
AnchorHashes(peaks_by_time, anchor_idx) ==
    LET anchor_peak == peaks_by_time[anchor_idx]
        target_peaks ==
            FindTargetPeaks(anchor_peak,
                            SubSeq(peaks_by_time, anchor_idx + 1,
                                   Len(peaks_by_time)),
                            HASH_FAN_VALUE)
    IN  HashesOfTargets(anchor_peak, target_peaks, 1)

RECURSIVE GenerateHashesRange(_, _, _)
\* the rounds of the anchor loop from anchor_idx to last_idx
GenerateHashesRange(peaks_by_time, anchor_idx, last_idx) ==
    IF anchor_idx > last_idx THEN <<>>
    ELSE AnchorHashes(peaks_by_time, anchor_idx)
         \o GenerateHashesRange(peaks_by_time, anchor_idx + 1, last_idx)

GenerateHashesFrom(peaks_by_time, anchor_idx) ==
    GenerateHashesRange(peaks_by_time, anchor_idx, Len(peaks_by_time))

GenerateHashes(peaks) == GenerateHashesFrom(SortedByTime(peaks), 1)

\* fingerprint_audio on an audio given by its constellation map
FingerprintAudio(audio) ==
    IF Len(audio) = 0 THEN <<>> ELSE GenerateHashes(audio)

(***************************************************************************)
(* The Redis list store: key -> [list, ttl].  ttl = -1: no expiry set.     *)
(***************************************************************************)
\* LPUSH key value
LPush(store, key, value) ==
    [k \in DOMAIN store \cup {key} |->
        IF k # key THEN store[k]
        ELSE IF key \in DOMAIN store
             THEN [store[key] EXCEPT !.list = <<value>> \o @]
             ELSE [list |-> <<value>>, ttl |-> -1]]

\* EXPIRE key seconds
Expire(store, key, seconds) ==
    IF key \in DOMAIN store
    THEN [store EXCEPT ![key].ttl = seconds]
    ELSE store

\* a read that consumes: the list is popped empty, which deletes the key
LRangeConsuming(store, key) ==
    [values |-> IF key \in DOMAIN store THEN store[key].list ELSE <<>>,
     store  |-> [k \in DOMAIN store \ {key} |-> store[k]]]

\* LRANGE key 0 -1: the values read and the store it leaves
LRange(store, key) ==
    [values |-> IF key \in DOMAIN store THEN store[key].list ELSE <<>>,
     store  |-> store]

\* the server after `seconds` have passed: keys whose time to live ran out
\* are gone
Elapsed(store, seconds) ==
    LET kept == {k \in DOMAIN store :
                    store[k].ttl = -1 \/ store[k].ttl > seconds}
    IN  [k \in kept |->
            IF store[k].ttl = -1 THEN store[k]
            ELSE [store[k] EXCEPT !.ttl = @ - seconds]]

\* every posting held under any key
Postings(store) ==
    UNION {{[key |-> k, idx |-> i] : i \in 1..Len(store[k].list)} :
           k \in DOMAIN store}
PostingsOf(store, song_id) ==
    {p \in Postings(store) : store[p.key].list[p.idx].song_id = song_id}

(***************************************************************************)
(* The SQLite songs table: a set of rows; sqlite_sequence holds the        *)
(* largest id the AUTOINCREMENT key has ever handed out.                   *)
(***************************************************************************)
RowIds(rows) == {r.id : r \in rows}

MaxRowId(rows) ==
    IF rows = {} THEN 0
    ELSE CHOOSE m \in RowIds(rows) : \A i \in RowIds(rows) : i <= m

\* id INTEGER PRIMARY KEY without AUTOINCREMENT: one more than the largest
\* id now in the table
NextRowIdReusing(rows, seq) == MaxRowId(rows) + 1

\* id INTEGER PRIMARY KEY AUTOINCREMENT
NextRowId(rows, seq) == Max(seq, MaxRowId(rows)) + 1

\* rows that violate file_path TEXT UNIQUE against a new row
ConflictingRows(rows, file_path) == {r \in rows : r.file_path = file_path}

\* INSERT OR REPLACE INTO songs (..., file_path, ..., fingerprint_count)
InsertOrReplace(rows, seq, file_path, fingerprint_count) ==
    LET id == NextRowId(rows, seq)
        row == [id |-> id, file_path |-> file_path,
                fingerprint_count |-> fingerprint_count]
    IN  [rows |-> (rows \ ConflictingRows(rows, file_path)) \cup {row},
         seq |-> id,
         lastrowid |-> id]

GetSongMetadata(rows, song_id) ==
    IF \E r \in rows : r.id = song_id
    THEN Some(CHOOSE r \in rows : r.id = song_id)
    ELSE None

GetSongByPath(rows, file_path) ==
    IF \E r \in rows : r.file_path = file_path
    THEN Some(CHOOSE r \in rows : r.file_path = file_path)
    ELSE None

\* the DELETE is never committed: closing the connection rolls it back
DeleteSongUncommitted(rows, song_id) == rows

\* DELETE FROM songs WHERE id = ?, committed
DeleteSong(rows, song_id) == {r \in rows : r.id # song_id}

\* remove_song without the get_song_metadata lookup
RemoveSongUnchecked(rows, song_id) ==
    [rows |-> DeleteSong(rows, song_id), result |-> TRUE]

\* remove_song: the table afterwards and the value returned
RemoveSong(rows, song_id) ==
    IF ~IsSome(GetSongMetadata(rows, song_id))
    THEN [rows |-> rows, result |-> FALSE]
    ELSE [rows |-> DeleteSong(rows, song_id), result |-> TRUE]

RECURSIVE InsertByDateAdded(_, _)
\* insert r after every row whose date_added is >= r's
InsertByDateAdded(sorted, r) ==
    IF sorted = <<>> THEN <<r>>
    ELSE IF sorted[Len(sorted)].date_added >= r.date_added
         THEN Append(sorted, r)
         ELSE Append(InsertByDateAdded(SubSeq(sorted, 1, Len(sorted) - 1), r),
                     sorted[Len(sorted)])

RECURSIVE OrderByDateAddedFrom(_, _, _)
OrderByDateAddedFrom(rows, scan, i) ==
    IF i = 0 THEN <<>>
    ELSE InsertByDateAdded(
             OrderByDateAddedFrom(rows, scan, i - 1),
             CHOOSE r \in rows : r.id = scan[i])

\* ORDER BY date_added DESC: the table is scanned in rowid order and the
\* sorter keeps rows of equal date_added in the order of the scan
OrderByDateAddedDesc(rows) ==
    OrderByDateAddedFrom(rows, SetToSeq(RowIds(rows)), Cardinality(rows))

\* the same, the scan running from the largest rowid down
OrderByDateAddedDescReverseScan(rows) ==
    LET up == SetToSeq(RowIds(rows))
        down == [i \in 1..Len(up) |-> up[Len(up) + 1 - i]]
    IN  OrderByDateAddedFrom(rows, down, Cardinality(rows))

\* a sorter whose order among equal keys depends on its capacity
TopRowsByCapacity(rows, capacity) ==
    LET ordered == IF capacity % 2 = 0
                   THEN OrderByDateAddedDesc(rows)
                   ELSE OrderByDateAddedDescReverseScan(rows)
    IN  SubSeq(ordered, 1, Min(capacity, Len(ordered)))

\* ORDER BY ... LIMIT ? OFFSET ?: the sorter keeps the first limit + offset
\* rows of the order
TopRows(rows, capacity) ==
    LET ordered == OrderByDateAddedDesc(rows)
    IN  SubSeq(ordered, 1, Min(capacity, Len(ordered)))

\* list_songs(limit, offset), limit >= 0 and offset >= 0: the ids of the page
ListSongs(rows, limit, offset) ==
    LET top == TopRows(rows, limit + offset)
    IN  [i \in 1..(Len(top) - Min(offset, Len(top))) |-> top[offset + i].id]

RECURSIVE StoreFingerprintsRedisFrom(_, _, _, _)
StoreFingerprintsRedisFrom(store, song_id, fingerprints, i) ==
    IF i > Len(fingerprints) THEN store
    ELSE LET fingerprint == fingerprints[i]
             hash_key == fingerprint.hash_value
             occurrence_data == [song_id |-> song_id,
                                 time_offset |-> fingerprint.time_offset]
             pushed == LPush(store, hash_key, occurrence_data)
             expiring == IF REDIS_HASH_EXPIRY > 0
                         THEN Expire(pushed, hash_key, REDIS_HASH_EXPIRY)
                         ELSE pushed
         IN  StoreFingerprintsRedisFrom(expiring, song_id, fingerprints, i + 1)

\* the postings written under the id after the song's
StoreFingerprintsRedisNextId(store, song_id, fingerprints, execute_raises) ==
    IF execute_raises
    THEN [store |-> store, raised |-> TRUE]
    ELSE [store |-> StoreFingerprintsRedisFrom(store, song_id + 1,
                                               fingerprints, 1),
          raised |-> FALSE]

\* _store_fingerprints_redis: the pipeline is a MULTI/EXEC transaction;
\* execute() applies all of it, or raises having applied none of it
StoreFingerprintsRedis(store, song_id, fingerprints, execute_raises) ==
    IF execute_raises
    THEN [store |-> store, raised |-> TRUE]
    ELSE [store |-> StoreFingerprintsRedisFrom(store, song_id, fingerprints, 1),
          raised |-> FALSE]

\* add_song: the row is inserted and committed first, the fingerprints are
\* sent to Redis afterwards
AddSong(rows, seq, store, client, file_path, fingerprints, execute_raises) ==
    LET ins == InsertOrReplace(rows, seq, file_path, Len(fingerprints))
        wr  == IF client /\ Len(fingerprints) > 0
               THEN StoreFingerprintsRedis(store, ins.lastrowid, fingerprints,
                                           execute_raises)
               ELSE [store |-> store, raised |-> FALSE]
    IN  [rows |-> ins.rows, seq |-> ins.seq, store |-> wr.store,
         lastrowid |-> ins.lastrowid,
         raised |-> wr.raised,
         stored |-> client /\ Len(fingerprints) > 0 /\ ~wr.raised]

(***************************************************************************)
(* search_fingerprints.  The occurrences are met hash by hash, and under   *)
(* one hash in the order LRANGE returns them; matches (a dict song_id ->   *)
(* list) is kept as the sequence of its entries in insertion order.        *)
(***************************************************************************)
RECURSIVE ReadOccurrences(_, _, _)
\* every occurrence in the order the two loops meet them, each with its
\* query_time, and the store the lookups leave behind
ReadOccurrences(store, query_hashes, i) ==
    IF i > Len(query_hashes) THEN [met |-> <<>>, store |-> store]
    ELSE LET read == LRange(store, query_hashes[i].hash_value)
             rest == ReadOccurrences(read.store, query_hashes, i + 1)
         IN  [met |-> [j \in 1..Len(read.values) |->
                          [song_id |-> read.values[j].song_id,
                           time_offset |-> read.values[j].time_offset,
                           query_time |-> query_hashes[i].time_offset]]
                      \o rest.met,
              store |-> rest.store]

\* the dict the loops build: one entry per song_id, in the order the
\* song_ids are first met, each holding its occurrences in the order met
GroupBySong(met) ==
    LET ids == {met[k].song_id : k \in 1..Len(met)}
        first == [s \in ids |->
                    CHOOSE k \in 1..Len(met) :
                        /\ met[k].song_id = s
                        /\ \A l \in 1..(k - 1) : met[l].song_id # s]
        keys == SetToSeq({first[s] : s \in ids})
        OfSong(s) ==
            LET at == SetToSeq({k \in 1..Len(met) : met[k].song_id = s})
            IN  [n \in 1..Len(at) |->
                    [time_offset |-> met[at[n]].time_offset,
                     query_time |-> met[at[n]].query_time]]
    IN  [e \in 1..Len(keys) |->
            [song_id |-> met[keys[e]].song_id,
             occurrences |-> OfSong(met[keys[e]].song_id)]]

\* the matches found and the store the lookups leave behind
SearchFingerprints(store, client, query_hashes) ==
    IF ~client THEN [matches |-> <<>>, store |-> store]
    ELSE LET read == ReadOccurrences(store, query_hashes, 1)
         IN  [matches |-> GroupBySong(read.met), store |-> read.store]

(***************************************************************************)
(* The matcher (src/src/matching.py).                                      *)
(***************************************************************************)
\* int(offset // tolerance) * tolerance: the bin is cut off, not rounded
QuantizeFloor(offset, tolerance) == (offset \div tolerance) * tolerance

\* round(offset / tolerance) * tolerance, round being Python's (ties to even)
Quantize(offset, tolerance) ==
    LET q == (2 * offset + tolerance) \div (2 * tolerance)
        tie == (2 * offset + tolerance) % (2 * tolerance) = 0
    IN  (IF tie /\ q % 2 = 1 THEN q - 1 ELSE q) * tolerance

\* Counter(xs).most_common(1)[0]: the largest count, and among the values
\* attaining it the one met first
MostCommon(xs) ==
    With([i \in 1..Len(xs) |->
             Cardinality({j \in 1..Len(xs) : xs[j] = xs[i]})],
         LAMBDA count :
            LET best == CHOOSE i \in 1..Len(xs) :
                           /\ \A j \in 1..Len(xs) : count[j] <= count[i]
                           /\ \A j \in 1..(i - 1) : count[j] < count[i]
            IN  <<xs[best], count[best]>>)

\* the gate with the one threshold 0.3, whatever unique_ratio is
FindBestAlignmentFixedGate(time_offsets) ==
    IF Len(time_offsets) = 0 THEN None
    ELSE With(MostCommon([i \in 1..Len(time_offsets) |->
                   Quantize(time_offsets[i], TIME_ALIGNMENT_TOLERANCE)]),
              LAMBDA best :
                 IF 10 * best[2] < 3 * Len(time_offsets) THEN None
                 ELSE Some(best))

\* None, or Some(<<best_offset, best_count>>)
FindBestAlignment(time_offsets) ==
    IF Len(time_offsets) = 0 THEN None
    ELSE With(MostCommon([i \in 1..Len(time_offsets) |->
                   Quantize(time_offsets[i], TIME_ALIGNMENT_TOLERANCE)]),
              LAMBDA best :
                 LET best_count == best[2]
                     n == Len(time_offsets)
                     unique == Cardinality({time_offsets[i] : i \in 1..n})
                     \* unique_ratio < 0.3
                     repetitive == 10 * unique < 3 * n
                     \* alignment_ratio < min_alignment (0.05 or 0.3)
                     below == IF repetitive THEN 20 * best_count < n
                              ELSE 10 * best_count < 3 * n
                 IN  IF below THEN None ELSE Some(best))

\* min(1.0, log(aligned_count + 1) / log(20)) in millionths
RawStrength(aligned_count) ==
    LET table == <<231378, 366725, 462756, 537243, 598104, 649560, 694134,
                   733451, 768621, 800437, 829482, 856201, 880938, 903969,
                   925512, 945749, 964829, 982877>>
    IN  IF aligned_count <= 0 THEN 0
        ELSE IF aligned_count > Len(table) THEN 1000000
        ELSE table[aligned_count]

\* _calculate_confidence, in millionths
CalculateConfidence(aligned_count, total_matches, total_query_hashes) ==
    IF total_matches = 0 \/ total_query_hashes = 0 THEN 0
    ELSE LET alignment_strength == (1000000 * aligned_count) \div total_matches
             coverage == Min(1000000,
                             (1000000 * total_matches) \div total_query_hashes)
             raw_strength == RawStrength(aligned_count)
             unique_bonus ==
                 IF total_matches > total_query_hashes
                 THEN Max(500000,
                          (1000000 * total_query_hashes) \div total_matches)
                 ELSE 1000000
             confidence == (4 * alignment_strength + 3 * raw_strength
                            + 2 * coverage + 1 * unique_bonus) \div 10
         IN  Min(1000000, confidence)

\* the MatchResult of a candidate that passed the alignment gate
MatchResult(song_id, alignment, total_matches, total_query_hashes) ==
    [song_id |-> song_id,
     confidence |-> CalculateConfidence(alignment[2], total_matches,
                                        total_query_hashes),
     matching_hashes |-> alignment[2],
     time_offset |-> alignment[1]]

TimeOffsets(occurrences) ==
    [i \in 1..Len(occurrences) |->
        occurrences[i].time_offset - occurrences[i].query_time]

\* the metadata lookup is skipped: a result is built for any song_id
AnalyzeSongMatchUnfiltered(rows, song_id, occurrences, total_query_hashes) ==
    IF Len(occurrences) < MIN_MATCHING_HASHES THEN None
    ELSE With(FindBestAlignment(TimeOffsets(occurrences)),
              LAMBDA alignment_analysis :
                 IF ~IsSome(alignment_analysis) THEN None
                 ELSE Some(MatchResult(song_id, Get(alignment_analysis),
                                       Len(occurrences),
                                       total_query_hashes)))

\* _analyze_song_match: None, or Some(MatchResult)
AnalyzeSongMatch(rows, song_id, occurrences, total_query_hashes) ==
    IF Len(occurrences) < MIN_MATCHING_HASHES THEN None
    ELSE With(FindBestAlignment(TimeOffsets(occurrences)),
              LAMBDA alignment_analysis :
                 IF ~IsSome(alignment_analysis) THEN None
                 ELSE IF ~IsSome(GetSongMetadata(rows, song_id)) THEN None
                 ELSE Some(MatchResult(song_id, Get(alignment_analysis),
                                       Len(occurrences),
                                       total_query_hashes)))

RECURSIVE InsertByConfidence(_, _)
\* place r after every result whose confidence is >= r's (stable, descending)
InsertByConfidence(sorted, r) ==
    IF sorted = <<>> THEN <<r>>
    ELSE IF sorted[Len(sorted)].confidence >= r.confidence
         THEN Append(sorted, r)
         ELSE Append(InsertByConfidence(SubSeq(sorted, 1, Len(sorted) - 1), r),
                     sorted[Len(sorted)])

RECURSIVE SortByConfidence(_)
\* match_results.sort(key=lambda x: x.confidence, reverse=True)
SortByConfidence(results) ==
    IF results = <<>> THEN <<>>
    ELSE InsertByConfidence(
             SortByConfidence(SubSeq(results, 1, Len(results) - 1)),
             results[Len(results)])

RECURSIVE AnalyzeCandidates(_, _, _, _, _)
\* the loop over raw_matches.items(): the results appended, in that order
AnalyzeCandidates(rows, raw_matches, total_query_hashes, min_matches, e) ==
    IF e > Len(raw_matches) THEN <<>>
    ELSE (IF Len(raw_matches[e].occurrences) < min_matches THEN <<>>
          ELSE With(AnalyzeSongMatch(rows, raw_matches[e].song_id,
                                     raw_matches[e].occurrences,
                                     total_query_hashes),
                    LAMBDA match_result :
                       IF IsSome(match_result)
                          /\ Get(match_result).confidence
                                >= CONFIDENCE_THRESHOLD
                       THEN match_result ELSE <<>>))
         \o AnalyzeCandidates(rows, raw_matches, total_query_hashes,
                              min_matches, e + 1)

\* find_matches from the point where raw_matches is at hand, raw_matches
\* not empty: steps 2 and 3
RankMatches(rows, raw_matches, total_query_hashes) ==
    SortByConfidence(AnalyzeCandidates(rows, raw_matches, total_query_hashes,
                                       MIN_MATCHING_HASHES, 1))

\* find_matches: the results and the Redis store the search leaves behind
FindMatches(rows, store, client, query_hashes) ==
    IF Len(query_hashes) = 0 THEN [results |-> <<>>, store |-> store]
    ELSE With(SearchFingerprints(store, client, query_hashes),
              LAMBDA found :
                 [results |->
                     IF Len(found.matches) = 0 THEN <<>>
                     ELSE RankMatches(rows, found.matches, Len(query_hashes)),
                  store |-> found.store])

\* the last of the list is taken for the best
BestOfLast(matches) ==
    IF Len(matches) > 0 THEN Some(matches[Len(matches)]) ELSE None

\* if matches: return matches[0]; else None
BestOf(matches) ==
    IF Len(matches) > 0 THEN Some(matches[1]) ELSE None

\* identify_best_match
IdentifyBestMatch(rows, store, client, query_hashes) ==
    With(FindMatches(rows, store, client, query_hashes),
         LAMBDA found :
            [result |-> BestOf(found.results),
             matches |-> found.results,
             store |-> found.store])

(***************************************************************************)
(* State.                                                                  *)
(***************************************************************************)
VARIABLES
    redis_client,     \* TRUE: connected at construction; FALSE: None
    songs,            \* the rows of the songs table
    sqlite_sequence,  \* largest id AUTOINCREMENT has handed out
    redis,            \* the Redis server's keys: hash_value -> [list, ttl]
    lastOp,           \* the last call made and what it returned
    returned,         \* ids add_song_to_database has returned
    removed           \* ids for which remove_song has returned True

vars == <<redis_client, songs, sqlite_sequence, redis, lastOp, returned,
          removed>>

EmptyStore == [k \in {} |-> [list |-> <<>>, ttl |-> -1]]

SongIds == 1..MaxSongs

Init ==
    /\ redis_client \in BOOLEAN
    /\ songs = {}
    /\ sqlite_sequence = 0
    /\ redis = EmptyStore
    /\ lastOp = [op |-> "init"]
    /\ returned = {}
    /\ removed = {}

\* try: ... with no except clause: what is raised reaches the caller
TryWithoutExcept(raised, value) ==
    [result |-> IF raised THEN None ELSE value, propagated |-> raised]

\* try: ... except Exception: log, return None
TryExcept(raised, value) ==
    [result |-> IF raised THEN None ELSE value, propagated |-> FALSE]

\* no request has let an exception through to its caller
Serving ==
    ~(lastOp.op \in {"add", "identify"} /\ lastOp.propagated)

\* the stages of a request in which something can raise before the stores
\* are reached
LoadStages == {"load", "fingerprint"}

\* a guard that lets every fingerprint list through
NoFingerprintsNever(fingerprints) == FALSE

\* `if not fingerprints:` / `if not query_hashes:`
NoFingerprints(fingerprints) == Len(fingerprints) = 0

(***************************************************************************)
(* ShazamSystem.add_song_to_database(audio_file, ...), the file holding    *)
(* `audio`.  execute_raises: pipeline.execute() raises (Redis went away).  *)
(***************************************************************************)
\* add_song_to_database from the point where the fingerprints are at hand
StoreIngest(file_path, audio, fingerprints, execute_raises) ==
    IF NoFingerprints(fingerprints)
    THEN /\ lastOp' = [op |-> "add", file_path |-> file_path,
                       audio |-> audio, lastrowid |-> None,
                       stored |-> FALSE, raised |-> FALSE,
                       result |-> None, failed |-> "none",
                       propagated |-> FALSE]
         /\ UNCHANGED <<redis_client, songs, sqlite_sequence, redis,
                        returned, removed>>
    ELSE /\ sqlite_sequence < MaxSongs
         /\ \E r \in {AddSong(songs, sqlite_sequence, redis, redis_client,
                              file_path, fingerprints, execute_raises)} :
            \E out \in {TryExcept(r.raised, Some(r.lastrowid))} :
                /\ songs' = r.rows
                /\ sqlite_sequence' = r.seq
                /\ redis' = r.store
                /\ lastOp' = [op |-> "add", file_path |-> file_path,
                              audio |-> audio,
                              lastrowid |-> Some(r.lastrowid),
                              stored |-> r.stored, raised |-> r.raised,
                              result |-> out.result,
                              failed |-> IF r.raised THEN "store"
                                         ELSE "none",
                              propagated |-> out.propagated]
                /\ returned' = IF IsSome(out.result)
                               THEN returned \cup {Get(out.result)}
                               ELSE returned
         /\ UNCHANGED <<redis_client, removed>>

AddSongToDatabase(audio_file, audio, execute_raises) ==
    /\ Serving
    /\ \E fingerprints \in {FingerprintAudio(audio)},
          file_path \in {Resolve(audio_file)} :
           StoreIngest(file_path, audio, fingerprints, execute_raises)

\* add_song_to_database when preprocess_for_fingerprinting (stage "load")
\* or fingerprint_audio (stage "fingerprint") raises: no fingerprints came
\* out of the file, the request is recorded with no audio
AddSongToDatabaseFailing(audio_file, stage) ==
    /\ Serving
    /\ \E out \in {TryExcept(TRUE, None)} :
          lastOp' = [op |-> "add", file_path |-> Resolve(audio_file),
                     audio |-> <<>>, lastrowid |-> None,
                     stored |-> FALSE, raised |-> FALSE,
                     result |-> out.result, failed |-> stage,
                     propagated |-> out.propagated]
    /\ UNCHANGED <<redis_client, songs, sqlite_sequence, redis, returned,
                   removed>>

(***************************************************************************)
(* ShazamSystem.identify_audio_file on a file holding `audio`.             *)
(***************************************************************************)
\* identify_audio_file on a file that loads and fingerprints: what it
\* returns, whether identify_best_match was called, the store it leaves
IdentifyAudio(rows, store, client, audio) ==
    With(FingerprintAudio(audio),
         LAMBDA query_hashes :
            IF NoFingerprints(query_hashes)
            THEN [result |-> None, matches |-> <<>>, store |-> store,
                  searched |-> FALSE]
            ELSE With(IdentifyBestMatch(rows, store, client, query_hashes),
                      LAMBDA found :
                         [result |-> found.result, matches |-> found.matches,
                          store |-> found.store, searched |-> TRUE]))

IdentifyAudioFile(audio) ==
    /\ Serving
    /\ \E found \in {IdentifyAudio(songs, redis, redis_client, audio)} :
           /\ redis' = found.store
           \* just_added: the song this very audio was ingested as by the
           \* call just before, when that call stored its postings
           /\ lastOp' = [op |-> "identify", audio |-> audio,
                         result |-> found.result, matches |-> found.matches,
                         \* searched: identify_best_match was called
                         searched |-> found.searched,
                         just_added |-> IF lastOp.op = "add"
                                           /\ lastOp.audio = audio
                                           /\ lastOp.stored
                                        THEN lastOp.result ELSE None,
                         failed |-> "none", propagated |-> FALSE]
    /\ UNCHANGED <<redis_client, songs, sqlite_sequence, returned, removed>>

\* identify_audio_file when preprocess_for_fingerprinting or
\* fingerprint_audio raises: the request is recorded with no audio
IdentifyAudioFileFailing(stage) ==
    /\ Serving
    /\ \E out \in {TryExcept(TRUE, None)} :
          lastOp' = [op |-> "identify", audio |-> <<>>,
                     result |-> out.result, matches |-> <<>>,
                     searched |-> FALSE, just_added |-> None,
                     failed |-> stage, propagated |-> out.propagated]
    /\ UNCHANGED <<redis_client, songs, sqlite_sequence, redis, returned,
                   removed>>

\* identify_audio_file when identify_best_match raises
IdentifyAudioFileMatchFailing(audio) ==
    /\ Serving
    /\ ~NoFingerprints(FingerprintAudio(audio))
    /\ \E out \in {TryExcept(TRUE, None)} :
          lastOp' = [op |-> "identify", audio |-> audio,
                     result |-> out.result, matches |-> <<>>,
                     searched |-> TRUE, just_added |-> None,
                     failed |-> "match", propagated |-> out.propagated]
    /\ UNCHANGED <<redis_client, songs, sqlite_sequence, redis, returned,
                   removed>>

(***************************************************************************)
(* FingerprintDatabase.remove_song(song_id)                                *)
(***************************************************************************)
RemoveSongCall(song_id) ==
    LET r == RemoveSong(songs, song_id)
    IN  /\ Serving
        /\ songs' = r.rows
        /\ removed' = IF r.result THEN removed \cup {song_id} ELSE removed
        /\ lastOp' = [op |-> "remove", song_id |-> song_id,
                      result |-> r.result]
        /\ UNCHANGED <<redis_client, sqlite_sequence, redis, returned>>

(***************************************************************************)
(* Time passes on the Redis server: one expiry period at a step.           *)
(***************************************************************************)
TimePasses ==
    /\ redis' = Elapsed(redis, REDIS_HASH_EXPIRY)
    /\ lastOp' = [op |-> "elapse"]
    /\ UNCHANGED <<redis_client, songs, sqlite_sequence, returned, removed>>

Next ==
    \/ \E audio_file \in Files, audio \in Clips,
          execute_raises \in (IF redis_client THEN BOOLEAN ELSE {FALSE}) :
            AddSongToDatabase(audio_file, audio, execute_raises)
    \/ \E audio \in Clips : IdentifyAudioFile(audio)
    \/ \E song_id \in SongIds : RemoveSongCall(song_id)
    \/ TimePasses

Spec == Init /\ [][Next]_vars

(***************************************************************************)
(* Runs in which, besides the Redis write, the loading, the fingerprinting *)
(* and the matching of a request can raise.                                *)
(***************************************************************************)
NextFailing ==
    \/ Next
    \/ \E audio_file \in Files, stage \in LoadStages :
            AddSongToDatabaseFailing(audio_file, stage)
    \/ \E stage \in LoadStages : IdentifyAudioFileFailing(stage)
    \/ \E audio \in Clips : IdentifyAudioFileMatchFailing(audio)

SpecFailing == Init /\ [][NextFailing]_vars

(***************************************************************************)
(* Self-identification runs: Redis is up and stays up, and every audio is  *)
(* a pulse train long enough to yield MIN_MATCHING_HASHES hashes.          *)
(***************************************************************************)
LongTrains ==
    {a \in Trains : Len(FingerprintAudio(a)) >= MIN_MATCHING_HASHES}

InitSelf ==
    /\ redis_client = TRUE
    /\ songs = {}
    /\ sqlite_sequence = 0
    /\ redis = EmptyStore
    /\ lastOp = [op |-> "init"]
    /\ returned = {}
    /\ removed = {}

NextSelf ==
    \/ \E audio_file \in Files, audio \in LongTrains :
            AddSongToDatabase(audio_file, audio, FALSE)
    \/ \E audio \in LongTrains : IdentifyAudioFile(audio)

SpecSelf == InitSelf /\ [][NextSelf]_vars

(***************************************************************************)
(* Ingest of a long track: a peak in every frame, LongTrackPeaks of them.  *)
(* generate_hashes walks its anchor loop AnchorsPerStep anchors per step;  *)
(* lastOp holds the loop's position and the hashes collected so far.       *)
(* Redis was not reachable at construction, so add_song writes the songs   *)
(* row only.                                                               *)
(***************************************************************************)
LongTrack == [i \in 1..LongTrackPeaks |-> SpectralPeak(ToneBin, i - 1)]

InitLong ==
    /\ redis_client = FALSE
    /\ songs = {}
    /\ sqlite_sequence = 0
    /\ redis = EmptyStore
    /\ lastOp = [op |-> "generate_hashes", file_path |-> Resolve("a.wav"),
                 anchor_idx |-> 1, hashes |-> <<>>]
    /\ returned = {}
    /\ removed = {}

\* for anchor_idx, anchor_peak in enumerate(peaks_by_time): the next rounds
GenerateHashesStep ==
    /\ lastOp.op = "generate_hashes"
    /\ lastOp.anchor_idx <= Len(LongTrack)
    /\ \E last_idx \in {Min(lastOp.anchor_idx + AnchorsPerStep - 1,
                            Len(LongTrack))} :
          lastOp' = [lastOp EXCEPT
                        !.anchor_idx = last_idx + 1,
                        !.hashes = @ \o GenerateHashesRange(
                                            LongTrack, lastOp.anchor_idx,
                                            last_idx)]
    /\ UNCHANGED <<redis_client, songs, sqlite_sequence, redis, returned,
                   removed>>

\* the loop is over: generate_hashes returns and the ingest goes on
StoreLongTrack ==
    /\ lastOp.op = "generate_hashes"
    /\ lastOp.anchor_idx > Len(LongTrack)
    /\ StoreIngest(lastOp.file_path, LongTrack, lastOp.hashes, FALSE)

NextLong == GenerateHashesStep \/ StoreLongTrack

SpecLong == InitLong /\ [][NextLong]_vars

(***************************************************************************)
(* The command line (src/main.py): `main.py identify <audio_file>` run as  *)
(* a process against the stores, between ingests.  exists: the file is     *)
(* there; create_raises: create_shazam_system() raises.                    *)
(***************************************************************************)
\* the exit status of the process, and what happened on the way to it
IdentifySong(rows, store, client, exists, audio, create_raises) ==
    IF ~exists
    THEN \* print("Error: Audio file does not exist"); sys.exit(1)
         [exit_code |-> 1, error |-> "user", result |-> None,
          store |-> store]
    ELSE IF create_raises
    THEN \* main: except Exception as e: print(...); sys.exit(1)
         [exit_code |-> 1, error |-> "internal", result |-> None,
          store |-> store]
    ELSE \* the result is printed and main returns
         With(IdentifyAudio(rows, store, client, audio),
              LAMBDA found :
                 [exit_code |-> 0, error |-> "none", result |-> found.result,
                  store |-> found.store])

CliIdentify(exists, audio, create_raises) ==
    /\ \E run \in {IdentifySong(songs, redis, redis_client, exists, audio,
                                 create_raises)} :
          /\ redis' = run.store
          /\ lastOp' = [op |-> "cli_identify", exit_code |-> run.exit_code,
                        error |-> run.error, result |-> run.result]
    /\ UNCHANGED <<redis_client, songs, sqlite_sequence, returned, removed>>

NextCli ==
    \/ \E audio_file \in Files, audio \in Clips :
            AddSongToDatabase(audio_file, audio, FALSE)
    \/ \E exists \in BOOLEAN, audio \in Clips, create_raises \in BOOLEAN :
            CliIdentify(exists, audio, create_raises)

SpecCli == Init /\ [][NextCli]_vars

(***************************************************************************)
(* add_song step by step, with a reader running beside it.  The row is     *)
(* committed (database.py:148-155), and only then are the postings sent to *)
(* Redis (157-158); get_song_metadata and the posting lists can be read    *)
(* between the two.  lastOp holds the writer's position (pc) and what the  *)
(* reader saw last.                                                        *)
(***************************************************************************)
InitPublish ==
    /\ redis_client \in BOOLEAN
    /\ songs = {}
    /\ sqlite_sequence = 0
    /\ redis = EmptyStore
    /\ lastOp = [op |-> "add_song", pc |-> "idle", song_id |-> 0,
                 fingerprints |-> <<>>, raised |-> FALSE, observed |-> None]
    /\ returned = {}
    /\ removed = {}

\* INSERT OR REPLACE ...; song_id = cursor.lastrowid; conn.commit()
AddSongCommit(audio_file, audio) ==
    /\ lastOp.pc # "committed"
    /\ sqlite_sequence < MaxSongs
    /\ \E fingerprints \in {FingerprintAudio(audio)} :
          /\ ~NoFingerprints(fingerprints)
          /\ \E ins \in {InsertOrReplace(songs, sqlite_sequence,
                                         Resolve(audio_file),
                                         Len(fingerprints))} :
                /\ songs' = ins.rows
                /\ sqlite_sequence' = ins.seq
                /\ lastOp' = [lastOp EXCEPT !.pc = "committed",
                                            !.song_id = ins.lastrowid,
                                            !.fingerprints = fingerprints,
                                            !.raised = FALSE]
    /\ UNCHANGED <<redis_client, redis, returned, removed>>

\* if self.redis_client and fingerprints: _store_fingerprints_redis(...);
\* return song_id -- or the exception add_song_to_database swallows
AddSongPublish(execute_raises) ==
    /\ lastOp.pc = "committed"
    /\ \E wr \in {IF redis_client /\ Len(lastOp.fingerprints) > 0
                  THEN StoreFingerprintsRedis(redis, lastOp.song_id,
                                              lastOp.fingerprints,
                                              execute_raises)
                  ELSE [store |-> redis, raised |-> FALSE]} :
          /\ redis' = wr.store
          /\ lastOp' = [lastOp EXCEPT !.pc = "done", !.raised = wr.raised]
          /\ returned' = IF wr.raised THEN returned
                         ELSE returned \cup {lastOp.song_id}
    /\ UNCHANGED <<redis_client, songs, sqlite_sequence, removed>>

\* a reader: the row of song_id and how many of its postings the index
\* holds, and whether the song's ingest was still on its way
ReadSong(song_id) ==
    /\ lastOp' = [lastOp EXCEPT !.observed =
                     Some([song_id |-> song_id,
                           row |-> GetSongMetadata(songs, song_id),
                           postings |-> Cardinality(PostingsOf(redis,
                                                               song_id)),
                           publishing |-> lastOp.pc = "committed"
                                          /\ lastOp.song_id = song_id])]
    /\ UNCHANGED <<redis_client, songs, sqlite_sequence, redis, returned,
                   removed>>

NextPublish ==
    \/ \E audio_file \in Files, audio \in Clips :
            AddSongCommit(audio_file, audio)
    \/ \E execute_raises \in BOOLEAN : AddSongPublish(execute_raises)
    \/ \E song_id \in SongIds : ReadSong(song_id)

SpecPublish == InitPublish /\ [][NextPublish]_vars

(***************************************************************************)
(* remove_song step by step on several threads.  Each call opens its own   *)
(* connection; nothing is locked between the get_song_metadata lookup      *)
(* (database.py:351-354) and the DELETE (357-361).  lastOp holds each      *)
(* thread's call: its position (pc), its song_id and what it returned.     *)
(***************************************************************************)
Threads == 1..MaxThreads

InitRemove ==
    /\ redis_client \in BOOLEAN
    /\ songs = {}
    /\ sqlite_sequence = 0
    /\ redis = EmptyStore
    /\ lastOp = [op |-> "remove_song",
                 calls |-> [t \in Threads |->
                              [pc |-> "idle", song_id |-> 0,
                               result |-> None]]]
    /\ returned = {}
    /\ removed = {}

\* add_song on the main thread, whole
AddSongBeside(audio_file, audio) ==
    /\ sqlite_sequence < MaxSongs
    /\ \E fingerprints \in {FingerprintAudio(audio)} :
          /\ ~NoFingerprints(fingerprints)
          /\ \E r \in {AddSong(songs, sqlite_sequence, redis, redis_client,
                               Resolve(audio_file), fingerprints, FALSE)} :
                /\ songs' = r.rows
                /\ sqlite_sequence' = r.seq
                /\ redis' = r.store
                /\ returned' = returned \cup {r.lastrowid}
    /\ UNCHANGED <<redis_client, lastOp, removed>>

\* song_info = self.get_song_metadata(song_id); if not song_info: return False
RemoveSongLookup(t, song_id) ==
    /\ lastOp.calls[t].pc # "found"
    /\ lastOp' = [lastOp EXCEPT !.calls[t] =
                     IF IsSome(GetSongMetadata(songs, song_id))
                     THEN [pc |-> "found", song_id |-> song_id,
                           result |-> None]
                     ELSE [pc |-> "done", song_id |-> song_id,
                           result |-> Some(FALSE)]]
    /\ UNCHANGED <<redis_client, songs, sqlite_sequence, redis, returned,
                   removed>>

\* DELETE FROM songs WHERE id = ?; conn.commit(); return True
RemoveSongDelete(t) ==
    /\ lastOp.calls[t].pc = "found"
    /\ songs' = DeleteSong(songs, lastOp.calls[t].song_id)
    /\ removed' = removed \cup {lastOp.calls[t].song_id}
    /\ lastOp' = [lastOp EXCEPT !.calls[t].pc = "done",
                                !.calls[t].result = Some(TRUE)]
    /\ UNCHANGED <<redis_client, sqlite_sequence, redis, returned>>

NextRemove ==
    \/ \E audio_file \in Files, audio \in Clips :
            AddSongBeside(audio_file, audio)
    \/ \E t \in Threads, song_id \in SongIds : RemoveSongLookup(t, song_id)
    \/ \E t \in Threads : RemoveSongDelete(t)

SpecRemove == InitRemove /\ [][NextRemove]_vars

(***************************************************************************)
(* Hashing runs: generate_hashes is called on one peak list after another, *)
(* the peaks lying in two frequency bins.  lastOp holds the list and the   *)
(* hashes of the latest call.                                              *)
(***************************************************************************)
PeakUniverse ==
    {SpectralPeak(f, t) : f \in {ToneBin, ToneBin + 1}, t \in Frames}

RECURSIVE PeaksInOrder(_)
\* the peaks of a set by time_frame, then frequency_bin
PeaksInOrder(S) ==
    IF S = {} THEN <<>>
    ELSE LET first == CHOOSE p \in S : \A q \in S :
                          \/ p.time_frame < q.time_frame
                          \/ /\ p.time_frame = q.time_frame
                             /\ p.frequency_bin <= q.frequency_bin
         IN  <<first>> \o PeaksInOrder(S \ {first})

Reversed(xs) == [i \in 1..Len(xs) |-> xs[Len(xs) + 1 - i]]

\* up to MaxPeaks distinct peaks, handed over earliest first or latest first
PeakLists ==
    UNION {{PeaksInOrder(S), Reversed(PeaksInOrder(S))} :
              S \in {T \in SUBSET PeakUniverse : Cardinality(T) <= MaxPeaks}}

InitHash ==
    /\ redis_client = FALSE
    /\ songs = {}
    /\ sqlite_sequence = 0
    /\ redis = EmptyStore
    /\ lastOp = [op |-> "generate_hashes_call", call |-> 0,
                 peaks |-> <<>>, hashes |-> GenerateHashes(<<>>)]
    /\ returned = {}
    /\ removed = {}

GenerateHashesCall(peaks) ==
    \* call: the parity of the number of calls made so far
    /\ lastOp' = [op |-> "generate_hashes_call", call |-> 1 - lastOp.call,
                  peaks |-> peaks, hashes |-> GenerateHashes(peaks)]
    /\ UNCHANGED <<redis_client, songs, sqlite_sequence, redis, returned,
                   removed>>

NextHash == \E peaks \in PeakLists : GenerateHashesCall(peaks)

SpecHash == InitHash /\ [][NextHash]_vars

(***************************************************************************)
(* Listing runs: the songs table is any table of at most MaxRows rows, and *)
(* a reader pages through it with list_songs, the offset advancing by the  *)
(* limit from 0 until a page comes back empty.  Nothing is added or        *)
(* removed meanwhile.  Rows carry the date_added column here.              *)
(***************************************************************************)
PathOf(song_id) == <<"/music", song_id>>

Tables ==
    UNION {{{[id |-> i, file_path |-> PathOf(i), fingerprint_count |-> 1,
              date_added |-> date[i]] : i \in ids} :
               date \in [ids -> 0..MaxDate]} : ids \in SUBSET (1..MaxRows)}

Limits == 1..MaxLimit

InitList ==
    /\ redis_client = FALSE
    /\ songs \in Tables
    /\ sqlite_sequence = MaxRows
    /\ redis = EmptyStore
    /\ lastOp = [op |-> "init"]
    /\ returned = RowIds(songs)
    /\ removed = {}

\* the reader's next call of list_songs(limit, offset)
ListNextPage(limit) ==
    /\ lastOp.op = "list" => (limit = lastOp.limit /\ ~lastOp.done)
    /\ \E offset \in {IF lastOp.op = "list"
                       THEN lastOp.offset + lastOp.limit ELSE 0} :
       \E page \in {ListSongs(songs, limit, offset)} :
          lastOp' = [op |-> "list", limit |-> limit, offset |-> offset,
                     page |-> page,
                     seen |-> (IF lastOp.op = "list" THEN lastOp.seen
                               ELSE <<>>) \o page,
                     done |-> page = <<>>]
    /\ UNCHANGED <<redis_client, songs, sqlite_sequence, redis, returned,
                   removed>>

NextList == \E limit \in Limits : ListNextPage(limit)

SpecList == InitList /\ [][NextList]_vars

(***************************************************************************)
(* Ranking runs: find_matches and identify_best_match on the candidates    *)
(* search_fingerprints hands them.  A candidate's occurrences are given by *)
(* how many of them lie at each of two offsets that quantize to different  *)
(* bins; the songs table holds every candidate, or every one but song 1    *)
(* (removed since).                                                        *)
(***************************************************************************)
\* count occurrences at offset time_offset - 0
OccurrencesAt(time_offset, count) ==
    [i \in 1..count |-> [time_offset |-> time_offset, query_time |-> 0]]

RankCounts == {0, 1, MIN_MATCHING_HASHES}

RankBuckets ==
    {OccurrencesAt(0, c) \o OccurrencesAt(2 * TIME_ALIGNMENT_TOLERANCE, d) :
        c \in RankCounts, d \in RankCounts} \ {<<>>}

\* the dicts search_fingerprints may return, as their entries in insertion
\* order: distinct song_ids, each with a bucket
RawMatches ==
    LET orders == {ids \in UNION {[1..n -> SongIds] : n \in 1..MaxSongs} :
                      \A i, j \in DOMAIN ids : i # j => ids[i] # ids[j]}
    IN  UNION {{[e \in DOMAIN ids |->
                    [song_id |-> ids[e], occurrences |-> buckets[e]]] :
                buckets \in [DOMAIN ids -> RankBuckets]} : ids \in orders}

RowOf(song_id) ==
    [id |-> song_id, file_path |-> PathOf(song_id), fingerprint_count |-> 1]

InitRank ==
    /\ redis_client = TRUE
    /\ songs \in {{RowOf(i) : i \in SongIds},
                  {RowOf(i) : i \in SongIds \ {1}}}
    /\ sqlite_sequence = MaxSongs
    /\ redis = EmptyStore
    /\ \E raw_matches \in RawMatches, n \in 1..MaxQueryHashes :
          lastOp = [op |-> "search_fingerprints",
                    raw_matches |-> raw_matches,
                    total_query_hashes |-> n]
    /\ returned = SongIds
    /\ removed = SongIds \ RowIds(songs)

\* find_matches after the search, and identify_best_match's pick
FindMatchesCall ==
    /\ lastOp.op = "search_fingerprints"
    /\ \E matches \in {RankMatches(songs, lastOp.raw_matches,
                                   lastOp.total_query_hashes)} :
          lastOp' = [op |-> "identify_best_match",
                     raw_matches |-> lastOp.raw_matches,
                     total_query_hashes |-> lastOp.total_query_hashes,
                     matches |-> matches,
                     result |-> BestOf(matches)]
    /\ UNCHANGED <<redis_client, songs, sqlite_sequence, redis, returned,
                   removed>>

NextRank == FindMatchesCall

SpecRank == InitRank /\ [][NextRank]_vars

(***************************************************************************)
(* Alignment runs: _find_best_alignment on the time offsets of one bucket. *)
(* An offset is a database frame less a query frame, both multiples of     *)
(* FrameStep.  A bucket is given by how many of its entries lie at each    *)
(* offset, met offset by offset in ascending or in descending order.       *)
(***************************************************************************)
AlignOffsets == {k * FrameStep : k \in (-1)..3}

RECURSIVE Repeated(_, _)
\* xs[1] counts[xs[1]] times, then xs[2] counts[xs[2]] times, ...
Repeated(xs, counts) ==
    IF xs = <<>> THEN <<>>
    ELSE [i \in 1..counts[xs[1]] |-> xs[1]]
         \o Repeated(SubSeq(xs, 2, Len(xs)), counts)

TimeOffsetLists ==
    UNION {{Repeated(SetToSeq(AlignOffsets), counts),
            Reversed(Repeated(SetToSeq(AlignOffsets), counts))} :
           counts \in [AlignOffsets -> 0..MaxCount]}

InitAlign ==
    /\ redis_client = TRUE
    /\ songs = {}
    /\ sqlite_sequence = 0
    /\ redis = EmptyStore
    /\ \E time_offsets \in TimeOffsetLists :
          lastOp = [op |-> "time_offsets", time_offsets |-> time_offsets]
    /\ returned = {}
    /\ removed = {}

FindBestAlignmentCall ==
    /\ lastOp.op = "time_offsets"
    /\ lastOp' = [op |-> "find_best_alignment",
                  time_offsets |-> lastOp.time_offsets,
                  alignment_analysis |->
                      FindBestAlignment(lastOp.time_offsets)]
    /\ UNCHANGED <<redis_client, songs, sqlite_sequence, redis, returned,
                   removed>>

NextAlign == FindBestAlignmentCall

SpecAlign == InitAlign /\ [][NextAlign]_vars

(***************************************************************************)
(* Confidence runs: _calculate_confidence on the counts of one candidate:  *)
(* aligned_count of its total_matches occurrences are aligned, the query   *)
(* has total_query_hashes hashes.                                          *)
(***************************************************************************)
InitConfidence ==
    /\ redis_client = TRUE
    /\ songs = {}
    /\ sqlite_sequence = 0
    /\ redis = EmptyStore
    /\ \E total_matches \in 1..MaxBucket,
          total_query_hashes \in 1..MaxQueryHashes :
       \E aligned_count \in 1..total_matches :
          lastOp = [op |-> "counts", aligned_count |-> aligned_count,
                    total_matches |-> total_matches,
                    total_query_hashes |-> total_query_hashes]
    /\ returned = {}
    /\ removed = {}

CalculateConfidenceCall ==
    /\ lastOp.op = "counts"
    /\ lastOp' = [op |-> "calculate_confidence",
                  aligned_count |-> lastOp.aligned_count,
                  total_matches |-> lastOp.total_matches,
                  total_query_hashes |-> lastOp.total_query_hashes,
                  confidence |->
                      CalculateConfidence(lastOp.aligned_count,
                                          lastOp.total_matches,
                                          lastOp.total_query_hashes)]
    /\ UNCHANGED <<redis_client, songs, sqlite_sequence, redis, returned,
                   removed>>

NextConfidence == CalculateConfidenceCall

SpecConfidence == InitConfidence /\ [][NextConfidence]_vars

(***************************************************************************)
(* Target zone runs: generate_hashes on peak lists that fill the fan and   *)
(* reach past the time-delta ceiling: a peak in each of the frames         *)
(* 0..HASH_FAN_VALUE + 1, a second peak in frame HASH_FAN_VALUE, and peaks *)
(* HASH_TIME_DELTA_MAX and HASH_TIME_DELTA_MAX + 1 frames after the first. *)
(***************************************************************************)
FanUniverse ==
    {SpectralPeak(ToneBin, t) : t \in 0..(HASH_FAN_VALUE + 1)}
        \cup {SpectralPeak(ToneBin + 1, HASH_FAN_VALUE)}
        \cup {SpectralPeak(ToneBin, t) :
                 t \in {HASH_TIME_DELTA_MAX, HASH_TIME_DELTA_MAX + 1}}

\* any of these peaks, handed over earliest first or latest first
FanPeakLists ==
    UNION {{PeaksInOrder(S), Reversed(PeaksInOrder(S))} :
              S \in SUBSET FanUniverse}

InitFan ==
    /\ redis_client = FALSE
    /\ songs = {}
    /\ sqlite_sequence = 0
    /\ redis = EmptyStore
    /\ \E peaks \in FanPeakLists : lastOp = [op |-> "peaks", peaks |-> peaks]
    /\ returned = {}
    /\ removed = {}

GenerateHashesOfPeaks ==
    /\ lastOp.op = "peaks"
    /\ lastOp' = [op |-> "generate_hashes", peaks |-> lastOp.peaks,
                  hashes |-> GenerateHashes(lastOp.peaks)]
    /\ UNCHANGED <<redis_client, songs, sqlite_sequence, redis, returned,
                   removed>>

NextFan == GenerateHashesOfPeaks

SpecFan == InitFan /\ [][NextFan]_vars

(***************************************************************************)
(* Peak picking runs: extract_peaks on a spectrogram of one time frame and *)
(* two bands.  A band's column is the sequence of its amplitudes, in       *)
(* thousandths, lowest bin first.  scipy.signal.find_peaks is modelled by  *)
(* its documented contract: a peak is a sample higher than both            *)
(* neighbours, a flat peak counts at its middle sample (rounded down),     *)
(* `height` is a minimum, and for `distance` smaller peaks are removed     *)
(* first until all remaining peaks are far enough apart.  Which of two     *)
(* equally high peaks goes first is not part of the contract: every order  *)
(* is an outcome.                                                          *)
(***************************************************************************)
\* the samples find_peaks takes for local maxima (1-based positions)
LocalMaxima(x) ==
    {(l + r) \div 2 : l \in 2..(Len(x) - 1), r \in 2..(Len(x) - 1)}
        \cap {m \in 1..Len(x) :
                 \E l \in 2..m, r \in m..(Len(x) - 1) :
                    /\ m = (l + r) \div 2
                    /\ \A i \in l..r : x[i] = x[l]
                    /\ x[l - 1] < x[l]
                    /\ x[r + 1] < x[l]}

RECURSIVE SelectByPeakDistance(_, _, _)
\* the sets of peaks the distance condition may leave of `undecided`
SelectByPeakDistance(x, undecided, distance) ==
    IF undecided = {} THEN {{}}
    ELSE LET highest == {p \in undecided : \A q \in undecided : x[q] <= x[p]}
         IN  UNION {{{p} \cup rest :
                       rest \in SelectByPeakDistance(
                                    x,
                                    {q \in undecided :
                                        q - p >= distance
                                        \/ p - q >= distance},
                                    distance)} :
                    p \in highest}

\* find_peaks(x, height=..., distance=...): the possible results
FindPeaks(x, height, distance) ==
    SelectByPeakDistance(x, {p \in LocalMaxima(x) : x[p] >= height},
                         distance)

\* np.argmax(amplitudes) over the peaks found: the first of the highest
Strongest(x, peak_indices) ==
    CHOOSE p \in peak_indices :
        /\ \A q \in peak_indices : x[q] <= x[p]
        /\ \A q \in peak_indices : x[q] = x[p] => p <= q

\* _find_peaks_in_band for the one time frame, find_peaks having returned
\* peak_indices: no peak, or the strongest one
FindPeaksInBand(time_slice, freq_offset, peak_indices) ==
    IF peak_indices = {} THEN <<>>
    ELSE LET p == Strongest(time_slice, peak_indices)
         IN  <<[frequency_bin |-> (p - 1) + freq_offset, time_frame |-> 0,
                amplitude |-> time_slice[p]]>>

RECURSIVE InsertByTimeAndAmplitude(_, _)
InsertByTimeAndAmplitude(sorted, p) ==
    IF sorted = <<>> THEN <<p>>
    ELSE LET last == sorted[Len(sorted)]
         IN  IF \/ last.time_frame < p.time_frame
                \/ /\ last.time_frame = p.time_frame
                   /\ last.amplitude >= p.amplitude
             THEN Append(sorted, p)
             ELSE Append(InsertByTimeAndAmplitude(
                             SubSeq(sorted, 1, Len(sorted) - 1), p),
                         last)

RECURSIVE SortedByTimeAndAmplitude(_)
\* peaks.sort(key=lambda p: (p.time_frame, -p.amplitude))
SortedByTimeAndAmplitude(peaks) ==
    IF peaks = <<>> THEN <<>>
    ELSE InsertByTimeAndAmplitude(
             SortedByTimeAndAmplitude(SubSeq(peaks, 1, Len(peaks) - 1)),
             peaks[Len(peaks)])

\* the first bin of band b (1 or 2): the bands lie side by side
LowBin(spectrogram, b) ==
    IF b = 1 THEN ToneBin ELSE ToneBin + Len(spectrogram[1])

\* extract_peaks, find_peaks having returned found[b] for band b
ExtractPeaks(spectrogram, found) ==
    SortedByTimeAndAmplitude(
        FindPeaksInBand(spectrogram[1], LowBin(spectrogram, 1), found[1])
        \o FindPeaksInBand(spectrogram[2], LowBin(spectrogram, 2), found[2]))

\* amplitudes: below the floor, and two levels above it
Amplitudes == {0, 2 * MIN_PEAK_AMPLITUDE, 3 * MIN_PEAK_AMPLITUDE}

\* the second band is silent or holds one peak
SecondBandColumns ==
    {<<0, 0, 0>>, <<0, 2 * MIN_PEAK_AMPLITUDE, 0>>}

InitPeaks ==
    /\ redis_client = FALSE
    /\ songs = {}
    /\ sqlite_sequence = 0
    /\ redis = EmptyStore
    /\ \E low \in [1..BandWidth -> Amplitudes], high \in SecondBandColumns :
          lastOp = [op |-> "spectrogram", spectrogram |-> <<low, high>>]
    /\ returned = {}
    /\ removed = {}

ExtractPeaksCall ==
    /\ lastOp.op = "spectrogram"
    /\ \E low \in FindPeaks(lastOp.spectrogram[1], MIN_PEAK_AMPLITUDE,
                            PEAK_NEIGHBORHOOD_SIZE),
          high \in FindPeaks(lastOp.spectrogram[2], MIN_PEAK_AMPLITUDE,
                             PEAK_NEIGHBORHOOD_SIZE) :
          lastOp' = [op |-> "extract_peaks",
                     spectrogram |-> lastOp.spectrogram,
                     peaks |-> ExtractPeaks(lastOp.spectrogram,
                                            <<low, high>>)]
    /\ UNCHANGED <<redis_client, songs, sqlite_sequence, redis, returned,
                   removed>>

NextPeaks == ExtractPeaksCall

SpecPeaks == InitPeaks /\ [][NextPeaks]_vars

(***************************************************************************)
(* Streaming runs (src/web_interface.py): the websocket handlers, each     *)
(* event on a thread of its own (async_mode='threading').  lastOp holds    *)
(* the module's globals (is_recording, audio_buffer as the lengths of its  *)
(* chunks in seconds, last_match_found), each audio_data handler's         *)
(* position (pc) and chunk, and the last recognition_result emitted: by    *)
(* which handler, and whether the session was recording then.              *)
(***************************************************************************)
RECURSIVE Sum(_)
Sum(xs) == IF xs = <<>> THEN 0 ELSE xs[1] + Sum(SubSeq(xs, 2, Len(xs)))

InitStream ==
    /\ redis_client = TRUE
    /\ songs = {}
    /\ sqlite_sequence = 0
    /\ redis = EmptyStore
    /\ lastOp = [op |-> "stream", is_recording |-> FALSE,
                 audio_buffer |-> <<>>, last_match_found |-> FALSE,
                 handlers |-> [t \in Threads |->
                                 [pc |-> "idle", chunk |-> 0]],
                 emitted |-> None]
    /\ returned = {}
    /\ removed = {}

\* handle_start_recording
HandleStartRecording ==
    /\ lastOp' = [lastOp EXCEPT !.is_recording = TRUE,
                                !.audio_buffer = <<>>,
                                !.last_match_found = FALSE,
                                !.emitted = None]
    /\ UNCHANGED <<redis_client, songs, sqlite_sequence, redis, returned,
                   removed>>

\* handle_stop_recording: the buffer is taken and emptied under the lock,
\* what was taken is processed if it is long enough
HandleStopRecording ==
    /\ LET current_buffer == lastOp.audio_buffer
           final == /\ current_buffer # <<>>
                    /\ ~lastOp.last_match_found
                    /\ Sum(current_buffer) >= FinalSeconds
       IN  lastOp' = [lastOp EXCEPT
                         !.is_recording = FALSE,
                         !.audio_buffer = <<>>,
                         !.emitted = IF final
                                     THEN Some([by |-> "stop_recording",
                                                recording |-> FALSE])
                                     ELSE @]
    /\ UNCHANGED <<redis_client, songs, sqlite_sequence, redis, returned,
                   removed>>

\* handle_audio_data up to the lock: `if not is_recording: return`, then the
\* chunk is decoded (an empty chunk is skipped)
HandleAudioDataDecode(t, seconds) ==
    /\ lastOp.handlers[t].pc = "idle"
    /\ lastOp.is_recording
    /\ seconds > 0
    /\ lastOp' = [lastOp EXCEPT !.handlers[t] =
                     [pc |-> "decoded", chunk |-> seconds]]
    /\ UNCHANGED <<redis_client, songs, sqlite_sequence, redis, returned,
                   removed>>

\* handle_audio_data under the lock: the chunk is appended; with a window's
\* worth of audio buffered, the last window is recognized (found or not),
\* its overlap is kept and the result is emitted
HandleAudioDataAppend(t, found) ==
    /\ lastOp.handlers[t].pc = "decoded"
    /\ LET appended == Append(lastOp.audio_buffer, lastOp.handlers[t].chunk)
           total_samples == Sum(appended)
           full == total_samples >= WindowSeconds
           current_audio == Min(total_samples, WindowSeconds)
       IN  /\ full \/ ~found
           /\ lastOp' = [lastOp EXCEPT
                 !.handlers[t] = [pc |-> "idle", chunk |-> 0],
                 !.audio_buffer =
                     IF full THEN <<Min(current_audio, OverlapSeconds)>>
                     ELSE appended,
                 !.last_match_found = IF full /\ found THEN TRUE ELSE @,
                 !.emitted = IF full
                             THEN Some([by |-> "audio_data",
                                        recording |-> lastOp.is_recording])
                             ELSE @]
    /\ UNCHANGED <<redis_client, songs, sqlite_sequence, redis, returned,
                   removed>>

NextStream ==
    \/ HandleStartRecording
    \/ HandleStopRecording
    \/ \E t \in Threads, seconds \in 0..MaxChunkSeconds :
            HandleAudioDataDecode(t, seconds)
    \/ \E t \in Threads, found \in BOOLEAN : HandleAudioDataAppend(t, found)

SpecStream == InitStream /\ [][NextStream]_vars

(***************************************************************************)
(* Folder runs: build_database_from_folder called again and again on a     *)
(* folder that does not change.  The folder is /music, the working         *)
(* directory; it is named by its absolute path or by the relative path     *)
(* ".", and rglob yields the files under the name the folder was given.    *)
(* lastOp holds the folder (the audio of each file) and the statistics of  *)
(* the last run.                                                           *)
(***************************************************************************)
FolderFiles == <<"/music/a.wav", "/music/b.wav">>

\* the path rglob yields for a file of the folder
Found(path, relative) ==
    IF ~relative THEN path
    ELSE IF path = "/music/a.wav" THEN "a.wav" ELSE "b.wav"

RECURSIVE BuildFrom(_, _, _, _, _)
\* the loop over audio_files from the i-th file on; run: the stores and the
\* statistics so far
BuildFrom(run, client, folder, relative, i) ==
    IF i > Len(FolderFiles) THEN run
    ELSE LET audio_file == Found(FolderFiles[i], relative)
             existing_song == GetSongByPath(run.rows, audio_file)
             fingerprints == FingerprintAudio(folder[FolderFiles[i]])
             added == AddSong(run.rows, run.seq, run.store, client,
                              Resolve(audio_file), fingerprints, FALSE)
         IN  BuildFrom(
                 IF IsSome(existing_song)
                 THEN [run EXCEPT !.skipped = @ + 1]
                 ELSE IF NoFingerprints(fingerprints)
                 THEN [run EXCEPT !.failed = @ + 1]
                 ELSE [rows |-> added.rows, seq |-> added.seq,
                       store |-> added.store,
                       ids |-> run.ids \cup {added.lastrowid},
                       processed |-> run.processed + 1,
                       failed |-> run.failed, skipped |-> run.skipped],
                 client, folder, relative, i + 1)

InitBuild ==
    /\ redis_client \in BOOLEAN
    /\ songs = {}
    /\ sqlite_sequence = 0
    /\ redis = EmptyStore
    /\ \E folder \in [{FolderFiles[i] : i \in 1..Len(FolderFiles)} -> Clips] :
          lastOp = [op |-> "folder", run |-> 0, folder |-> folder]
    /\ returned = {}
    /\ removed = {}

BuildDatabaseFromFolder(relative) ==
    /\ lastOp.run < MaxRuns
    /\ \E done \in {BuildFrom([rows |-> songs, seq |-> sqlite_sequence,
                               store |-> redis, ids |-> {},
                               processed |-> 0, failed |-> 0, skipped |-> 0],
                              redis_client, lastOp.folder, relative, 1)} :
          /\ songs' = done.rows
          /\ sqlite_sequence' = done.seq
          /\ redis' = done.store
          /\ returned' = returned \cup done.ids
          /\ lastOp' = [op |-> "build", run |-> lastOp.run + 1,
                        folder |-> lastOp.folder, relative |-> relative,
                        processed |-> done.processed,
                        failed |-> done.failed, skipped |-> done.skipped]
    /\ UNCHANGED <<redis_client, removed>>

NextBuild == \E relative \in BOOLEAN : BuildDatabaseFromFolder(relative)

SpecBuild == InitBuild /\ [][NextBuild]_vars

(***************************************************************************)
(* Properties.                                                             *)
(***************************************************************************)
PathIsLive(rows, file_path) == \E r \in rows : r.file_path = file_path

IsSuffix(old, new) ==
    /\ Len(old) <= Len(new)
    /\ \A i \in 1..Len(old) : old[i] = new[Len(new) - Len(old) + i]

\* C1: an add_song_to_database of a file_path that has a live row is
\* rejected: it returns no id and changes neither the songs table nor the
\* postings.
DuplicatePathRejected ==
    [][(lastOp'.op = "add" /\ PathIsLive(songs, lastOp'.file_path))
          => /\ lastOp'.result = None
             /\ songs' = songs
             /\ redis' = redis]_vars

\* C2: when an ingest has generated its hashes but its postings were not
\* committed (execute() raised, or there is no Redis client), the stores
\* hold no row and no posting of that song afterwards.
IngestAtomic ==
    (lastOp.op = "add" /\ IsSome(lastOp.lastrowid) /\ ~lastOp.stored)
        => /\ ~IsSome(GetSongMetadata(songs, Get(lastOp.lastrowid)))
           /\ PostingsOf(redis, Get(lastOp.lastrowid)) = {}

\* C3: get_song_metadata is absent for every id remove_song has removed,
\* whatever was ingested, removed or queried since.
RemovedStaysAbsent ==
    \A song_id \in removed : GetSongMetadata(songs, song_id) = None

\* C3 witness: a song was removed and a later ingest went through.
RemovedThenIngested ==
    /\ removed # {}
    /\ lastOp.op = "add"
    /\ IsSome(lastOp.result)

\* C4: find_matches and identify_best_match return only songs that have a
\* live metadata row.
MatcherFiltersDead ==
    lastOp.op = "identify"
        => /\ \A k \in 1..Len(lastOp.matches) :
                 lastOp.matches[k].song_id \in RowIds(songs)
           /\ IsSome(lastOp.result)
                 => Get(lastOp.result).song_id \in RowIds(songs)

\* C4 witness: an identify met a removed song whose postings, still in the
\* index, pass the size filter and the alignment gate.
DeadCandidateMet ==
    /\ lastOp.op = "identify"
    /\ \E e \in 1..Len(SearchFingerprints(redis, redis_client,
                           FingerprintAudio(lastOp.audio)).matches) :
          LET entry == SearchFingerprints(redis, redis_client,
                           FingerprintAudio(lastOp.audio)).matches[e]
          IN  /\ entry.song_id \in removed
              /\ IsSome(AnalyzeSongMatchUnfiltered(
                            songs, entry.song_id, entry.occurrences,
                            Len(FingerprintAudio(lastOp.audio))))

\* C5: identifying an audio right after ingesting it as song s returns s,
\* with confidence >= 0.5 and no candidate above it.
SelfIdentification ==
    (lastOp.op = "identify" /\ IsSome(lastOp.just_added))
        => /\ IsSome(lastOp.result)
           /\ Get(lastOp.result).song_id = Get(lastOp.just_added)
           /\ Get(lastOp.result).confidence >= 500000
           /\ \A k \in 1..Len(lastOp.matches) :
                 lastOp.matches[k].confidence <= Get(lastOp.result).confidence

\* C6: a live row's fingerprint_count is the number of postings in the
\* index that carry its song_id.
FingerprintCountMatches ==
    \A r \in songs :
        r.fingerprint_count = Cardinality(PostingsOf(redis, r.id))

\* C7: every song ingested and not removed has exactly one row, and no two
\* rows share a song_id or a file_path.
OneRowPerLiveSong ==
    /\ \A song_id \in returned \ removed :
          Cardinality({r \in songs : r.id = song_id}) = 1
    /\ \A r1, r2 \in songs :
          r1 # r2 => (r1.id # r2.id /\ r1.file_path # r2.file_path)

\* C8: every id add_song_to_database returns is greater than every id
\* returned before it.
SongIdMonotonic ==
    [][(lastOp'.op = "add" /\ IsSome(lastOp'.result))
          => \A earlier \in returned : Get(lastOp'.result) > earlier]_vars

\* C8 witness: an ingest returned an id after some song had been removed.
IngestedAfterRemoval ==
    /\ lastOp.op = "add"
    /\ IsSome(lastOp.result)
    /\ removed # {}
    /\ Cardinality(returned) >= 2

\* C9: under every hash key the list of postings only grows: no step
\* deletes a key or drops or rewrites a posting.
PostingListsAppendOnly ==
    [][\A h \in DOMAIN redis :
          /\ h \in DOMAIN redis'
          /\ IsSuffix(redis[h].list, redis'[h].list)]_vars

\* C10: an identify, matching or not, leaves the songs table and every
\* posting list as they were.
IdentifyReadOnly ==
    [][lastOp'.op = "identify"
          => /\ songs' = songs
             /\ sqlite_sequence' = sqlite_sequence
             /\ redis' = redis]_vars

\* C10 witness: an identify that matched a song.
IdentifyMatched ==
    /\ lastOp.op = "identify"
    /\ IsSome(lastOp.result)

\* C11: an add_song_to_database whose audio yields no hashes returns no
\* song id and adds no row and no posting.
NoFingerprintsRejected ==
    [][(lastOp'.op = "add" /\ Len(FingerprintAudio(lastOp'.audio)) = 0)
          => /\ lastOp'.result = None
             /\ songs' = songs
             /\ sqlite_sequence' = sqlite_sequence
             /\ redis' = redis]_vars

\* C11 witness: a hashless audio (silence, or a single peak) was offered
\* to a database that already holds a song.
HashlessIngestTried ==
    /\ lastOp.op = "add"
    /\ Len(FingerprintAudio(lastOp.audio)) = 0
    /\ songs # {}

\* C12: an identify whose audio yields no hashes returns None without
\* calling the matcher and leaves both stores as they were.
EmptyQueryNoMatch ==
    [][(lastOp'.op = "identify" /\ Len(FingerprintAudio(lastOp'.audio)) = 0)
          => /\ lastOp'.result = None
             /\ ~lastOp'.searched
             /\ songs' = songs
             /\ sqlite_sequence' = sqlite_sequence
             /\ redis' = redis]_vars

\* C12 witness: a hashless audio was identified against a non-empty index.
HashlessQueryTried ==
    /\ lastOp.op = "identify"
    /\ Len(FingerprintAudio(lastOp.audio)) = 0
    /\ DOMAIN redis # {}

RemoveAbsentIsNoOp ==
    [][(lastOp'.op = "remove" /\ lastOp'.song_id \notin RowIds(songs))
          => /\ lastOp'.result = FALSE
             /\ songs' = songs
             /\ removed' = removed
             /\ redis' = redis]_vars

\* C15 witness: a remove_song that found no row while another song was
\* live and indexed.
RemoveFoundNoRow ==
    /\ lastOp.op = "remove"
    /\ lastOp.result = FALSE
    /\ songs # {}
    /\ DOMAIN redis # {}

\* C16: no add_song_to_database and no identify_audio_file lets an
\* exception through: a request in which a stage raised ends with the
\* result None, and further ingest and identify calls can be made.
RequestFailuresIsolated ==
    lastOp.op \in {"add", "identify"}
        => /\ ~lastOp.propagated
           /\ lastOp.failed # "none" => lastOp.result = None
           /\ ENABLED (\E audio \in Clips : IdentifyAudioFile(audio))
           /\ ENABLED (\E audio_file \in Files, audio \in Clips :
                          AddSongToDatabase(audio_file, audio, FALSE))

\* C16 witness: the matcher raised in an identify, after an ingest whose
\* Redis write had raised.
FailedAfterFailure ==
    /\ lastOp.op = "identify"
    /\ lastOp.failed = "match"
    /\ redis_client
    /\ \E r \in songs : PostingsOf(redis, r.id) = {}

\* C17: every posting in the index carries a song_id that the songs table
\* has handed out to a row, live or not.
PostingsReferAssignedIds ==
    \A p \in Postings(redis) :
        redis[p.key].list[p.idx].song_id \in 1..sqlite_sequence

\* C17 witness: the index holds a posting of a removed song.
PostingOfRemovedSong ==
    \E p \in Postings(redis) : redis[p.key].list[p.idx].song_id \in removed

CliExitCodes ==
    lastOp.op = "cli_identify"
        => /\ (lastOp.exit_code = 0) <=> IsSome(lastOp.result)
           /\ (lastOp.error = "none" /\ ~IsSome(lastOp.result))
                 => lastOp.exit_code = 1
           /\ lastOp.error = "user" => lastOp.exit_code = 2
           /\ lastOp.error = "internal" => lastOp.exit_code = 3

\* C20: a reader that sees a song's row sees all of that ingest's postings
\* or none of them, and it never sees the row with fingerprint_count = N
\* when fewer than N postings will ever be written: once the ingest is over,
\* the N postings are there.
PublicationAtomic ==
    (IsSome(lastOp.observed) /\ IsSome(Get(lastOp.observed).row))
        => LET seen == Get(lastOp.observed)
               N == Get(seen.row).fingerprint_count
           IN  /\ seen.postings \in {0, N}
               /\ ~seen.publishing => seen.postings = N

\* C21: add_song and remove_song serialize: a concurrent execution gives
\* what some one-at-a-time order gives.  An id is never handed out twice, so
\* in every one-at-a-time order at most one remove_song of an id finds its
\* row: of two remove_song calls of one id, not both return True.
RemovesSerialize ==
    \A t, u \in Threads :
        (/\ t # u
         /\ lastOp.calls[t].pc = "done"
         /\ lastOp.calls[u].pc = "done"
         /\ lastOp.calls[t].song_id = lastOp.calls[u].song_id)
            => ~(/\ lastOp.calls[t].result = Some(TRUE)
                 /\ lastOp.calls[u].result = Some(TRUE))

\* candidate e passed the size filter and the alignment gate, and is live
Survives(raw, e) ==
    /\ Len(raw[e].occurrences) >= MIN_MATCHING_HASHES
    /\ IsSome(FindBestAlignment(TimeOffsets(raw[e].occurrences)))
    /\ IsSome(GetSongMetadata(songs, raw[e].song_id))

\* the confidence of a surviving candidate
ConfidenceOf(raw, e, total_query_hashes) ==
    CalculateConfidence(
        Get(FindBestAlignment(TimeOffsets(raw[e].occurrences)))[2],
        Len(raw[e].occurrences), total_query_hashes)

TiesRankedBySongId ==
    lastOp.op = "identify"
        => \A i, j \in 1..Len(lastOp.matches) :
              (i < j /\ lastOp.matches[i].confidence
                            = lastOp.matches[j].confidence)
                 => \/ lastOp.matches[i].matching_hashes
                          > lastOp.matches[j].matching_hashes
                    \/ /\ lastOp.matches[i].matching_hashes
                             = lastOp.matches[j].matching_hashes
                       /\ lastOp.matches[i].song_id
                             < lastOp.matches[j].song_id

\* the entries of a bucket nearest to the bin centre c (a multiple of the
\* tolerance): those less than half a tolerance away
EntriesInBin(time_offsets, c) ==
    {i \in 1..Len(time_offsets) :
        /\ 2 * (time_offsets[i] - c) < TIME_ALIGNMENT_TOLERANCE
        /\ 2 * (c - time_offsets[i]) < TIME_ALIGNMENT_TOLERANCE}

\* the bin centres near the offsets of a bucket
BinCentres(time_offsets) ==
    {c \in UNION {(time_offsets[i] - TIME_ALIGNMENT_TOLERANCE)
                     ..(time_offsets[i] + TIME_ALIGNMENT_TOLERANCE) :
                  i \in 1..Len(time_offsets)} :
        c % TIME_ALIGNMENT_TOLERANCE = 0}

\* the largest number of entries in one bin
LargestBin(time_offsets) ==
    CHOOSE m \in 0..Len(time_offsets) :
        /\ \A c \in BinCentres(time_offsets) :
              Cardinality(EntriesInBin(time_offsets, c)) <= m
        /\ \E c \in BinCentres(time_offsets) :
              Cardinality(EntriesInBin(time_offsets, c)) = m

GateRejected ==
    /\ lastOp.op = "find_best_alignment"
    /\ Len(lastOp.time_offsets) >= MIN_MATCHING_HASHES
    /\ ~IsSome(lastOp.alignment_analysis)

\* C25: offsets are quantized by dividing by TIME_ALIGNMENT_TOLERANCE and
\* rounding; aligned_count is the number of entries of the fullest bin and
\* best_offset is a bin that holds that many: no bin holds more.
HistogramMode ==
    (lastOp.op = "find_best_alignment" /\ IsSome(lastOp.alignment_analysis))
        => LET time_offsets == lastOp.time_offsets
               best_offset == Get(lastOp.alignment_analysis)[1]
               aligned_count == Get(lastOp.alignment_analysis)[2]
           IN  /\ best_offset % TIME_ALIGNMENT_TOLERANCE = 0
               /\ Cardinality(EntriesInBin(time_offsets, best_offset))
                     = aligned_count
               /\ \A c \in BinCentres(time_offsets) :
                     Cardinality(EntriesInBin(time_offsets, c))
                        <= aligned_count

\* a bucket whose fullest bin holds entries of two different raw offsets
TwoOffsetsInBestBin ==
    /\ lastOp.op = "find_best_alignment"
    /\ IsSome(lastOp.alignment_analysis)
    /\ \E i, j \in EntriesInBin(lastOp.time_offsets,
                                Get(lastOp.alignment_analysis)[1]) :
          lastOp.time_offsets[i] # lastOp.time_offsets[j]
    /\ \E c \in BinCentres(lastOp.time_offsets) :
          /\ c # Get(lastOp.alignment_analysis)[1]
          /\ EntriesInBin(lastOp.time_offsets, c) # {}

\* C26: the confidence is 0.4*alignment_strength + 0.3*raw_strength
\* + 0.2*coverage + 0.1*unique_bonus clamped to [0, 1], unique_bonus being
\* min(1, |query_hashes| / |bucket|) when |bucket| > |query_hashes| and 1
\* otherwise (all values in millionths).
ConfidenceFormula ==
    lastOp.op = "calculate_confidence"
        => LET bucket == lastOp.total_matches
               query_hashes == lastOp.total_query_hashes
               alignment_strength ==
                   (1000000 * lastOp.aligned_count) \div bucket
               raw_strength == RawStrength(lastOp.aligned_count)
               coverage ==
                   Min(1000000, (1000000 * bucket) \div query_hashes)
               unique_bonus ==
                   IF bucket > query_hashes
                   THEN Min(1000000, (1000000 * query_hashes) \div bucket)
                   ELSE 1000000
               sum == (4 * alignment_strength + 3 * raw_strength
                       + 2 * coverage + unique_bonus) \div 10
           IN  lastOp.confidence = Max(0, Min(1000000, sum))

\* the positions after a in the time-sorted list P whose peak lies
\* DELTA_MIN..DELTA_MAX frames after the peak at a
FollowersInZone(P, a) ==
    {j \in (a + 1)..Len(P) :
        /\ P[j].time_frame - P[a].time_frame >= HASH_TIME_DELTA_MIN
        /\ P[j].time_frame - P[a].time_frame <= HASH_TIME_DELTA_MAX}

\* the first min(FAN_VALUE, k) of them
FirstFollowers(P, a) ==
    {j \in FollowersInZone(P, a) :
        Cardinality({i \in FollowersInZone(P, a) : i < j}) < HASH_FAN_VALUE}

\* the hash of the pair (anchor at a, target at j)
PairHash(P, a, j) ==
    [hash_value |-> HashString(P[a].frequency_bin, P[j].frequency_bin,
                               P[j].time_frame - P[a].time_frame),
     time_offset |-> P[a].time_frame,
     anchor_freq |-> P[a].frequency_bin,
     target_freq |-> P[j].frequency_bin,
     time_delta |-> P[j].time_frame - P[a].time_frame]

\* C27: for each anchor, generate_hashes emits exactly the pairs of the
\* anchor with the first min(FAN_VALUE, k) peaks that follow it in
\* time-sorted order at a time delta in [DELTA_MIN, DELTA_MAX]: at most
\* FAN_VALUE hashes per anchor, every time_delta in range, every time_offset
\* the anchor's time_frame.
TargetZoneHashes ==
    lastOp.op = "generate_hashes"
        => LET P == SortedByTime(lastOp.peaks)
               hashes == lastOp.hashes
               emitted == {hashes[i] : i \in 1..Len(hashes)}
               OfAnchor(a) == {PairHash(P, a, j) : j \in FirstFollowers(P, a)}
           IN  /\ \A i \in 1..(Len(P) - 1) :
                     P[i].time_frame <= P[i + 1].time_frame
               /\ emitted = UNION {OfAnchor(a) : a \in 1..Len(P)}
               /\ Len(hashes) = Cardinality(emitted)
               /\ \A a \in 1..Len(P) :
                     Cardinality({h \in emitted :
                                     /\ h.time_offset = P[a].time_frame
                                     /\ h.anchor_freq = P[a].frequency_bin})
                        <= HASH_FAN_VALUE
               /\ \A h \in emitted :
                     /\ HASH_TIME_DELTA_MIN <= h.time_delta
                     /\ h.time_delta <= HASH_TIME_DELTA_MAX
                     /\ h.time_delta > 0

\* an anchor with more than FAN_VALUE followers in its zone and one past
\* the ceiling: FAN_VALUE hashes for it
FanFilledAndCeilingPassed ==
    /\ lastOp.op = "generate_hashes"
    /\ LET P == SortedByTime(lastOp.peaks)
       IN  /\ Len(P) > 0
           /\ Cardinality(FollowersInZone(P, 1)) > HASH_FAN_VALUE
           /\ \E j \in 2..Len(P) :
                 P[j].time_frame - P[1].time_frame > HASH_TIME_DELTA_MAX
           /\ Cardinality({i \in 1..Len(lastOp.hashes) :
                              lastOp.hashes[i].time_offset = P[1].time_frame})
                 = HASH_FAN_VALUE

\* the peaks emitted for band b
PeaksOfBand(spectrogram, peaks, b) ==
    {i \in 1..Len(peaks) :
        /\ peaks[i].frequency_bin >= LowBin(spectrogram, b)
        /\ peaks[i].frequency_bin
              < LowBin(spectrogram, b) + Len(spectrogram[b])}

\* C28: extract_peaks emits at most one peak per (band, frame): when the
\* band's column has local maxima above MIN_PEAK_AMPLITUDE, the one of
\* greatest amplitude, ties going to the lowest frequency bin; when it has
\* none, no peak.
OnePeakPerBandLowestBin ==
    lastOp.op = "extract_peaks"
        => \A b \in 1..Len(lastOp.spectrogram) :
              LET x == lastOp.spectrogram[b]
                  maxima == {p \in LocalMaxima(x) :
                                x[p] >= MIN_PEAK_AMPLITUDE}
                  emitted == PeaksOfBand(lastOp.spectrogram, lastOp.peaks, b)
              IN  /\ Cardinality(emitted) <= 1
                  /\ maxima = {} <=> emitted = {}
                  /\ \A i \in emitted :
                        LET p == lastOp.peaks[i].frequency_bin
                                    - LowBin(lastOp.spectrogram, b) + 1
                        IN  /\ p \in maxima
                            /\ lastOp.peaks[i].amplitude = x[p]
                            /\ \A q \in maxima : x[q] <= x[p]
                            /\ \A q \in maxima : x[q] = x[p] => p <= q

\* C29: a chunk is appended and a recognition is run only while the
\* session is recording: once stop_recording has set is_recording to False
\* and emptied the buffer, the buffer stays empty until the next
\* start_recording and no audio_data handler emits a recognition_result.
StoppedSessionStaysEmpty ==
    (lastOp.op = "stream" /\ ~lastOp.is_recording)
        => /\ lastOp.audio_buffer = <<>>
           /\ IsSome(lastOp.emitted)
                 => ~(/\ Get(lastOp.emitted).by = "audio_data"
                      /\ ~Get(lastOp.emitted).recording)

\* C30: build_database_from_folder is idempotent: every file found is
\* counted exactly once as processed, failed or skipped, and a run after a
\* run over the unchanged folder, named the same way (by a relative or by
\* an absolute path) both times, skips every file the run before ingested or skipped and adds no row and
\* no posting.
BuildIsIdempotent ==
    [][lastOp'.op = "build"
          => /\ lastOp'.processed + lastOp'.failed + lastOp'.skipped
                   = Len(FolderFiles)
             /\ (lastOp.op = "build" /\ lastOp.relative = lastOp'.relative)
                   => /\ lastOp'.skipped
                            >= lastOp.processed + lastOp.skipped
                      /\ songs' = songs
                      /\ redis' = redis]_vars

=============================================================================
